---- MODULE Spec2Model ----
(***************************************************************************)
(* A model of the rusty_chip8 interpreter: the CPU of src/src/cpu.rs, the  *)
(* Display of src/src/display.rs, the Keyboard of src/src/keyboard.rs and  *)
(* the calls main() of src/src/main.rs makes on them.                      *)
(*                                                                         *)
(* Rust's arithmetic on u8/u16 panics on overflow in a build with overflow *)
(* checks and wraps in a build without: where an overflow can happen the   *)
(* model takes either outcome.  A panic ends the process: the model moves  *)
(* to status "panicked" and keeps the machine state of the last completed  *)
(* operation.                                                              *)
(***************************************************************************)
EXTENDS Integers, Sequences, FiniteSets, TLC

VARIABLES
    pc,           \* CPU.pc: u16
    stack,        \* CPU.stack: [u16; 16], indexed 0..15
    sp,           \* CPU.sp: u8
    i,            \* CPU.i: u16
    dt,           \* CPU.dt: u8
    st,           \* CPU.st: u8
    v,            \* CPU.v: [u8; 16], indexed 0..15
    memory,       \* CPU.memory: [u8; 4096], indexed 0..4095
    keys,         \* Keyboard.keys: HashSet<u8>
    fb,           \* Display.fb: [bool; 2048], held as the set of indices that are true
    need_redraw,  \* Display.need_redraw
    main_keys,    \* main's keys: HashSet<Keycode>, the host keys it last saw pressed
    output_beep,  \* main's output_beep: what the last update_timers() returned
    contents,     \* the bytes of the ROM file load_rom reads
    status,       \* where main() is: "new", "reset", "running" or "panicked"
    fault         \* which panic ended the process ("none" while it runs)

vars == <<pc, stack, sp, i, dt, st, v, memory, keys, fb, need_redraw,
          main_keys, output_beep, contents, status, fault>>

\* What update_timers and exec_cycle may change, apart from status and fault.
machine == <<pc, stack, sp, i, dt, st, v, memory, keys, fb, need_redraw>>

-----------------------------------------------------------------------------
(* Program constants *)

WIDTH == 64
HEIGHT == 32
MEM_SIZE == 4096
PROGRAM_START == 512

Byte == 0..255
Reg == 0..15

font ==
    << 240, 144, 144, 144, 240,    \* 0
       32,  96,  32,  32,  112,    \* 1
       240, 16,  240, 128, 240,    \* 2
       240, 16,  240, 16,  240,    \* 3
       144, 144, 240, 16,  16,     \* 4
       240, 128, 240, 16,  240,    \* 5
       240, 128, 240, 144, 240,    \* 6
       240, 16,  32,  64,  64,     \* 7
       240, 144, 240, 144, 240,    \* 8
       240, 144, 240, 16,  240,    \* 9
       240, 144, 240, 144, 144,    \* A
       224, 144, 224, 144, 224,    \* B
       240, 128, 128, 128, 240,    \* C
       224, 144, 144, 144, 224,    \* D
       240, 128, 240, 128, 240,    \* E
       240, 128, 240, 128, 128 >>  \* F

\* Keyboard::gen_keymap: host key code -> logical key.
keymap ==
    [h \in {"Num1", "Num2", "Num3", "Num4", "Q", "W", "E", "R",
            "A", "S", "D", "F", "Z", "X", "C", "V"} |->
        CASE h = "Num1" -> 0  [] h = "Num2" -> 1  [] h = "Num3" -> 2
          [] h = "Num4" -> 3  [] h = "Q" -> 4     [] h = "W" -> 5
          [] h = "E" -> 6     [] h = "R" -> 7     [] h = "A" -> 8
          [] h = "S" -> 9     [] h = "D" -> 10    [] h = "F" -> 11
          [] h = "Z" -> 12    [] h = "X" -> 13    [] h = "C" -> 14
          [] h = "V" -> 15]

-----------------------------------------------------------------------------
(* Bit operations on bytes *)

Pow2(k) == 2 ^ k

\* Bit k (0 = least significant) of b.
Bit(b, k) == (b \div Pow2(k)) % 2

RECURSIVE BitAnd(_, _)
\* a & b.
BitAnd(a, b) ==
    IF a = 0 \/ b = 0 THEN 0
    ELSE (a % 2) * (b % 2) + 2 * BitAnd(a \div 2, b \div 2)

RECURSIVE BitOr(_, _)
\* a | b.
BitOr(a, b) ==
    IF a = 0 THEN b ELSE IF b = 0 THEN a
    ELSE (IF (a % 2) + (b % 2) > 0 THEN 1 ELSE 0) + 2 * BitOr(a \div 2, b \div 2)

RECURSIVE BitXor(_, _)
\* a ^ b.
BitXor(a, b) ==
    IF a = 0 THEN b ELSE IF b = 0 THEN a
    ELSE (((a % 2) + (b % 2)) % 2) + 2 * BitXor(a \div 2, b \div 2)

-----------------------------------------------------------------------------
(* Display *)

\* Display::get_pixel; the index x + y * WIDTH is in range when InFb holds.
InFb(x, y) == x + y * WIDTH \in 0..(WIDTH * HEIGHT - 1)
get_pixel(f, x, y) == (x + y * WIDTH) \in f

\* Display::set_pixel.
set_pixel(f, x, y, val) ==
    IF val THEN f \cup {x + y * WIDTH} ELSE f \ {x + y * WIDTH}

\* wrap_x without the wraparound.
wrap_x_none(x, c) == x + c

\* The wrapped coordinates draw_sprite computes for bit column c of row j.
wrap_x(x, c) == (x + c) % 64
wrap_y(y, j) == (y + j) % 32

\* blit that sets the pixel instead of XORing it.
blit_or(new_value, old_value) == (new_value = 1) \/ old_value

\* The value draw_sprite stores in a pixel whose sprite bit is 1.
blit(new_value, old_value) == (new_value = 1) # old_value

\* collide that keeps only the last pixel's state.
collide_last(collision, old_value) == old_value

\* The collision flag of draw_sprite after a pixel whose old value is old_value.
collide(collision, old_value) == collision \/ old_value

RECURSIVE draw_row(_, _, _, _, _, _)
\* The inner loop of draw_sprite for row j, from bit column c on; acc is
\* [fb, collision, ok], ok false once an index was out of range.
draw_row(acc, x, y, sprite, j, c) ==
    IF c >= 8 \/ ~acc.ok THEN acc
    ELSE LET row == sprite[j + 1]
             new_value == BitAnd(row \div Pow2(7 - c), 1)
         IN  IF new_value = 1
             THEN LET xi == wrap_x(x, c)
                      yj == wrap_y(y, j)
                  IN  IF ~InFb(xi, yj)
                      THEN [acc EXCEPT !.ok = FALSE]
                      ELSE LET old_value == get_pixel(acc.fb, xi, yj)
                           IN  draw_row(
                                 [fb |-> set_pixel(acc.fb, xi, yj, blit(new_value, old_value)),
                                  collision |-> collide(acc.collision, old_value),
                                  ok |-> TRUE],
                                 x, y, sprite, j, c + 1)
             ELSE draw_row(acc, x, y, sprite, j, c + 1)

RECURSIVE draw_loop(_, _, _, _, _)
\* The outer loop of draw_sprite, from row j on.
draw_loop(acc, x, y, sprite, j) ==
    IF j >= Len(sprite) \/ ~acc.ok THEN acc
    ELSE draw_loop(draw_row(acc, x, y, sprite, j, 0), x, y, sprite, j + 1)

\* Display::draw_sprite: the new framebuffer and the returned collision flag.
draw_sprite(f, x, y, sprite) ==
    draw_loop([fb |-> f, collision |-> FALSE, ok |-> TRUE], x, y, sprite, 0)

-----------------------------------------------------------------------------
(* Keyboard *)

\* update_keys without the clear(): the keys held before stay held.
update_keys_stale(keys_pressed) ==
    keys \cup {keymap[h] : h \in {k \in keys_pressed : k \in DOMAIN keymap}}

\* Keyboard::update_keys: the logical keys of the pressed host keys.
update_keys(keys_pressed) ==
    {keymap[h] : h \in {k \in keys_pressed : k \in DOMAIN keymap}}

is_pressed(key) == key \in keys

-----------------------------------------------------------------------------
(* Inputs: the host keys that may be down and the ROM files *)

\* The number of host keys the driver may report as pressed.
MaxHostKey == 2

\* Host keys in the order the bound admits them; "Space" is not in the keymap.
HostKeyOrder == <<"X", "Space", "Num1", "V", "Q", "W">>
HostKeys == {HostKeyOrder[k] : k \in 1..MaxHostKey}

\* The bytes of a program given as a sequence of 16-bit opcodes, most
\* significant byte first.
Asm(ops) ==
    [k \in 1..(2 * Len(ops)) |->
        IF k % 2 = 1 THEN ops[(k + 1) \div 2] \div 256 ELSE ops[k \div 2] % 256]

\* Opcodes from their nibbles, from a register and a byte, from an address.
Op(a, b, c, d) == a * 4096 + b * 256 + c * 16 + d
OpXK(a, x, kk) == a * 4096 + x * 256 + kk
OpA(a, nnn) == a * 4096 + nnn

\* A ROM of len bytes: JP 0x200 (a program that runs forever) followed by
\* non-zero filler that depends on the position.
RomOfLen(len, salt) ==
    [k \in 1..len |-> IF k = 1 THEN 18 ELSE IF k = 2 THEN 0 ELSE ((k + salt) % 255) + 1]

-----------------------------------------------------------------------------
(* CPU: state changes *)

\* The state after an operation that completes: the fields of r replace the
\* variables of the same name, the rest keep their values.
Upd(r) ==
    /\ pc' = IF "pc" \in DOMAIN r THEN r.pc ELSE pc
    /\ stack' = IF "stack" \in DOMAIN r THEN r.stack ELSE stack
    /\ sp' = IF "sp" \in DOMAIN r THEN r.sp ELSE sp
    /\ i' = IF "i" \in DOMAIN r THEN r.i ELSE i
    /\ dt' = IF "dt" \in DOMAIN r THEN r.dt ELSE dt
    /\ st' = IF "st" \in DOMAIN r THEN r.st ELSE st
    /\ v' = IF "v" \in DOMAIN r THEN r.v ELSE v
    /\ memory' = IF "memory" \in DOMAIN r THEN r.memory ELSE memory
    /\ fb' = IF "fb" \in DOMAIN r THEN r.fb ELSE fb
    /\ need_redraw' = IF "need_redraw" \in DOMAIN r THEN r.need_redraw ELSE need_redraw
    /\ UNCHANGED <<keys, main_keys, output_beep, contents, status, fault>>

\* A panic: the process ends.
Panic(kind) ==
    /\ status' = "panicked"
    /\ fault' = kind
    /\ UNCHANGED <<machine, main_keys, output_beep, contents>>

\* An overflowing u8/u16 operation: a panic with overflow checks, the wrapped
\* result without.
OverflowOr(wrapped) ==
    \E checked \in BOOLEAN : IF checked THEN Panic("overflow") ELSE wrapped

\* v with register x set to val, then VF set to flag (the order of the
\* arithmetic instructions: result first, flag second).
ResultThenFlag(x, val, flag) == [[v EXCEPT ![x] = val] EXCEPT ![15] = flag]

-----------------------------------------------------------------------------
(* CPU: the arithmetic of the 8xy_ instructions *)

\* overflowing_add with the carry taken one too late.
overflowing_add_late(a, b) == <<(a + b) % 256, a + b > 256>>

\* u8::overflowing_add: <<result, overflow>>.
overflowing_add(a, b) == <<(a + b) % 256, a + b > 255>>

\* u8::overflowing_sub: <<result, overflow>>.
overflowing_sub(a, b) == <<(a - b) % 256, a < b>>

\* ADD Vx, Vy: VF from the overflow flag.
add_flag(overflow) == IF overflow THEN 1 ELSE 0

\* sub_flag with the convention of ADD (1 on overflow).
sub_flag_as_add(overflow) == IF overflow THEN 1 ELSE 0

\* SUB Vx, Vy and SUBN Vx, Vy: VF from the overflow (borrow) flag.
sub_flag(overflow) == IF overflow THEN 0 ELSE 1

\* SHR Vx: VF from the value before the shift.
shr_flag(vx) == IF BitAnd(vx, 1) = 1 THEN 1 ELSE 0

\* SHL Vx: VF from the value before the shift.
shl_flag(vx) == IF BitAnd(vx, 128) > 1 THEN 1 ELSE 0

\* u8 >> 1 and u8 << 1.
shr1(b) == b \div 2
shl1(b) == (b * 2) % 256

\* v with VF set to flag, then register x shifted by one bit, left or right
\* (the order of the shift instructions: flag first, shift second).
FlagThenShift(x, flag, left) ==
    LET v1 == [v EXCEPT ![15] = flag]
    IN  [v1 EXCEPT ![x] = IF left THEN shl1(v1[x]) ELSE shr1(v1[x])]

-----------------------------------------------------------------------------
(* CPU: operations *)

\* CPU::new.
Init0 ==
    /\ pc = 512
    /\ stack = [k \in 0..15 |-> 0]
    /\ sp = 0
    /\ i = 0
    /\ dt = 0
    /\ st = 0
    /\ v = [k \in 0..15 |-> 0]
    /\ memory = [a \in 0..(MEM_SIZE - 1) |-> 0]
    /\ keys = {}
    /\ fb = {}
    /\ need_redraw = FALSE
    /\ main_keys = {}
    /\ output_beep = FALSE
    /\ status = "new"
    /\ fault = "none"

\* CPU::load_font applied to memory m.
load_font(m) == [a \in 0..(MEM_SIZE - 1) |-> IF a < Len(font) THEN font[a + 1] ELSE m[a]]

\* reset without the call of keyboard.clear().
reset_keeps_keys ==
    /\ pc' = 512
    /\ stack' = [k \in 0..15 |-> 0]
    /\ sp' = 0
    /\ i' = 0
    /\ dt' = 0
    /\ st' = 0
    /\ v' = [k \in 0..15 |-> 0]
    /\ memory' = load_font([a \in 0..(MEM_SIZE - 1) |-> 0])
    /\ keys' = keys
    /\ fb' = {}
    /\ need_redraw' = TRUE

\* CPU::reset; keyboard.clear() empties keys, display.clear() empties the
\* framebuffer and sets need_redraw.
reset ==
    /\ pc' = 512
    /\ stack' = [k \in 0..15 |-> 0]
    /\ sp' = 0
    /\ i' = 0
    /\ dt' = 0
    /\ st' = 0
    /\ v' = [k \in 0..15 |-> 0]
    /\ memory' = load_font([a \in 0..(MEM_SIZE - 1) |-> 0])
    /\ keys' = {}
    /\ fb' = {}
    /\ need_redraw' = TRUE

\* CPU::reset, the first call main makes on the CPU.
Reset ==
    /\ status = "new"
    /\ reset
    /\ status' = "reset"
    /\ UNCHANGED <<main_keys, output_beep, contents, fault>>

\* CPU::reset called again by a driver, on a CPU that is waiting for its ROM
\* or running; the driver then loads the ROM as main does.
ResetAgain ==
    /\ status \in {"reset", "running"}
    /\ reset
    /\ status' = "reset"
    /\ UNCHANGED <<main_keys, output_beep, contents, fault>>

\* The test load_rom makes on the length of the file.
rom_fits(len) == len < 4095 - 512

\* The memory load_rom leaves: byte k of rom at 0x200 + k.
rom_copy(m, rom) ==
    [a \in 0..(MEM_SIZE - 1) |->
        IF a >= PROGRAM_START /\ a - PROGRAM_START < Len(rom)
        THEN rom[a - PROGRAM_START + 1] ELSE m[a]]

\* CPU::load_rom, called once by main after reset.
LoadRom ==
    /\ status = "reset"
    /\ IF rom_fits(Len(contents))
       THEN /\ memory' = rom_copy(memory, contents)
            /\ status' = "running"
            /\ UNCHANGED <<pc, stack, sp, i, dt, st, v, keys, fb, need_redraw,
                           main_keys, output_beep, contents, fault>>
       ELSE Panic("load")

\* CPU::fetch_opcode: the two bytes at pc, most significant first.
fetch_opcode == memory[pc] * 256 + memory[pc + 1]

\* The sprite DRW hands to draw_sprite: the slice memory[I ..= I + n].
drw_sprite(n) == [k \in 1..(n + 1) |-> memory[i + k - 1]]

\* op_drw with need_redraw set only when the draw changed a pixel.
op_drw_lazy(x, y, n, pc1) ==
    IF i + n > MEM_SIZE - 1
    THEN IF i + n > 65535 THEN \E k \in {"overflow", "bounds"} : Panic(k)
         ELSE Panic("bounds")
    ELSE LET r == draw_sprite(fb, v[x], v[y], drw_sprite(n))
         IN  IF ~r.ok THEN Panic("bounds")
             ELSE Upd([pc |-> pc1, fb |-> r.fb,
                       need_redraw |-> need_redraw \/ r.fb # fb,
                       v |-> [v EXCEPT ![15] = IF r.collision THEN 1 ELSE 0]])

\* DRW Vx, Vy, nibble; pc1 is pc after exec_cycle's increment.
op_drw(x, y, n, pc1) ==
    IF i + n > MEM_SIZE - 1
    THEN IF i + n > 65535 THEN \E k \in {"overflow", "bounds"} : Panic(k)
         ELSE Panic("bounds")
    ELSE LET r == draw_sprite(fb, v[x], v[y], drw_sprite(n))
         IN  IF ~r.ok THEN Panic("bounds")
             ELSE Upd([pc |-> pc1, fb |-> r.fb, need_redraw |-> TRUE,
                       v |-> [v EXCEPT ![15] = IF r.collision THEN 1 ELSE 0]])

\* op_ld_vx_k without the rewind of pc while no key is pressed.
op_ld_vx_k_no_rewind(x, pc1) ==
    IF keys # {}
    THEN \E key \in keys : Upd([pc |-> pc1, v |-> [v EXCEPT ![x] = key]])
    ELSE Upd([pc |-> pc1])

\* LD Vx, K; the key is the first one the iteration over the HashSet yields,
\* which may be any key of the set.
op_ld_vx_k(x, pc1) ==
    IF keys # {}
    THEN \E key \in keys : Upd([pc |-> pc1, v |-> [v EXCEPT ![x] = key]])
    ELSE Upd([pc |-> pc1 - 2])

\* LD B, Vx.
op_ld_b(x, pc1) ==
    IF i + 2 > MEM_SIZE - 1 THEN Panic("bounds")
    ELSE Upd([pc |-> pc1,
              memory |-> [memory EXCEPT ![i] = v[x] \div 100,
                                        ![i + 1] = (v[x] \div 10) % 10,
                                        ![i + 2] = (v[x] % 100) % 10]])

\* op_ld_i_vx with the block one byte too low.
op_ld_i_vx_low(x, pc1) ==
    IF i + x > MEM_SIZE - 1 THEN Panic("bounds")
    ELSE Upd([pc |-> pc1,
              memory |-> [a \in 0..(MEM_SIZE - 1) |->
                            IF a >= i - 1 /\ a <= i + x - 1 THEN v[a - i + 1] ELSE memory[a]]])

\* LD [I], Vx.
op_ld_i_vx(x, pc1) ==
    IF i + x > MEM_SIZE - 1 THEN Panic("bounds")
    ELSE Upd([pc |-> pc1,
              memory |-> [a \in 0..(MEM_SIZE - 1) |->
                            IF a >= i /\ a <= i + x THEN v[a - i] ELSE memory[a]]])

\* op_ld_vx_i that stops before Vx.
op_ld_vx_i_short(x, pc1) ==
    IF i + x > MEM_SIZE - 1 THEN Panic("bounds")
    ELSE Upd([pc |-> pc1,
              v |-> [k \in 0..15 |-> IF k < x THEN memory[i + k] ELSE v[k]]])

\* LD Vx, [I].
op_ld_vx_i(x, pc1) ==
    IF i + x > MEM_SIZE - 1 THEN Panic("bounds")
    ELSE Upd([pc |-> pc1,
              v |-> [k \in 0..15 |-> IF k <= x THEN memory[i + k] ELSE v[k]]])

\* RET that leaves sp at 0 on an empty stack and goes on with slot 0.
op_ret_silent ==
    IF sp = 0 THEN Upd([pc |-> stack[0]])
    ELSE Upd([sp |-> sp - 1, pc |-> stack[sp - 1]])

\* CALL that pushes the address of the CALL itself.
op_call_pushes_call(nnn, pc1) ==
    IF sp > 15 THEN Panic("bounds")
    ELSE Upd([stack |-> [stack EXCEPT ![sp] = pc1 - 2], sp |-> sp + 1, pc |-> nnn])

\* RET.
op_ret ==
    IF sp = 0 THEN \E k \in {"overflow", "bounds"} : Panic(k)
    ELSE Upd([sp |-> sp - 1, pc |-> stack[sp - 1]])

\* CALL addr.
op_call(nnn, pc1) ==
    IF sp > 15 THEN Panic("bounds")
    ELSE Upd([stack |-> [stack EXCEPT ![sp] = pc1], sp |-> sp + 1, pc |-> nnn])

\* The pc after a skip instruction whose condition is cond.
skip(cond, pc1) == Upd([pc |-> IF cond THEN pc1 + 2 ELSE pc1])

\* LD ST, Vx that assigns the delay timer.
op_ld_st_sets_dt(x, pc1) == Upd([pc |-> pc1, dt |-> v[x]])

\* LD ST, Vx.
op_ld_st(x, pc1) == Upd([pc |-> pc1, st |-> v[x]])

\* An opcode no arm matches, skipped as if it were a no-op.
invalid_opcode_skipped(opcode, pc1) == Upd([pc |-> pc1])

\* The last arm of process_opcode: an opcode no other arm matches.
invalid_opcode(opcode, pc1) == Panic("opcode")

\* CPU::process_opcode, with pc1 the pc exec_cycle has already advanced.
process_opcode(opcode, pc1) ==
    LET op_4 == opcode \div 4096
        op_3 == (opcode \div 256) % 16
        op_2 == (opcode \div 16) % 16
        op_1 == opcode % 16
        nnn == opcode % 4096
        x == op_3
        y == op_2
        n == op_1
        kk == opcode % 256
    IN  CASE op_4 = 0 /\ op_3 = 0 /\ op_2 = 14 /\ op_1 = 0 ->
               Upd([pc |-> pc1, fb |-> {}, need_redraw |-> TRUE])
          [] op_4 = 0 /\ op_3 = 0 /\ op_2 = 14 /\ op_1 = 14 -> op_ret
          [] op_4 = 1 -> Upd([pc |-> nnn])
          [] op_4 = 2 -> op_call(nnn, pc1)
          [] op_4 = 3 -> skip(v[x] = kk, pc1)
          [] op_4 = 4 -> skip(v[x] # kk, pc1)
          [] op_4 = 5 -> skip(v[x] = v[y], pc1)
          [] op_4 = 6 -> Upd([pc |-> pc1, v |-> [v EXCEPT ![x] = kk]])
          [] op_4 = 7 -> Upd([pc |-> pc1, v |-> [v EXCEPT ![x] = (v[x] + kk) % 256]])
          [] op_4 = 8 /\ op_1 = 0 -> Upd([pc |-> pc1, v |-> [v EXCEPT ![x] = v[y]]])
          [] op_4 = 8 /\ op_1 = 1 ->
               Upd([pc |-> pc1, v |-> [v EXCEPT ![x] = BitOr(v[x], v[y])]])
          [] op_4 = 8 /\ op_1 = 2 ->
               Upd([pc |-> pc1, v |-> [v EXCEPT ![x] = BitAnd(v[x], v[y])]])
          [] op_4 = 8 /\ op_1 = 3 ->
               Upd([pc |-> pc1, v |-> [v EXCEPT ![x] = BitXor(v[x], v[y])]])
          [] op_4 = 8 /\ op_1 = 4 ->
               LET r == overflowing_add(v[x], v[y])
               IN  Upd([pc |-> pc1, v |-> ResultThenFlag(x, r[1], add_flag(r[2]))])
          [] op_4 = 8 /\ op_1 = 5 ->
               LET r == overflowing_sub(v[x], v[y])
               IN  Upd([pc |-> pc1, v |-> ResultThenFlag(x, r[1], sub_flag(r[2]))])
          [] op_4 = 8 /\ op_1 = 6 ->
               Upd([pc |-> pc1, v |-> FlagThenShift(x, shr_flag(v[x]), FALSE)])
          [] op_4 = 8 /\ op_1 = 7 ->
               LET r == overflowing_sub(v[y], v[x])
               IN  Upd([pc |-> pc1, v |-> ResultThenFlag(x, r[1], sub_flag(r[2]))])
          [] op_4 = 8 /\ op_1 = 14 ->
               Upd([pc |-> pc1, v |-> FlagThenShift(x, shl_flag(v[x]), TRUE)])
          [] op_4 = 9 /\ op_1 = 0 -> skip(v[x] # v[y], pc1)
          [] op_4 = 10 -> Upd([pc |-> pc1, i |-> nnn])
          [] op_4 = 11 -> Upd([pc |-> nnn + v[0]])
          [] op_4 = 12 ->
               \E pseudo_random \in Byte :
                   Upd([pc |-> pc1, v |-> [v EXCEPT ![x] = BitAnd(pseudo_random, kk)]])
          [] op_4 = 13 -> op_drw(x, y, n, pc1)
          [] op_4 = 14 /\ op_2 = 9 /\ op_1 = 14 -> skip(is_pressed(v[x]), pc1)
          [] op_4 = 14 /\ op_2 = 10 /\ op_1 = 1 -> skip(~is_pressed(v[x]), pc1)
          [] op_4 = 15 /\ op_2 = 0 /\ op_1 = 7 ->
               Upd([pc |-> pc1, v |-> [v EXCEPT ![x] = dt]])
          [] op_4 = 15 /\ op_2 = 0 /\ op_1 = 10 -> op_ld_vx_k(x, pc1)
          [] op_4 = 15 /\ op_2 = 1 /\ op_1 = 5 -> Upd([pc |-> pc1, dt |-> v[x]])
          [] op_4 = 15 /\ op_2 = 1 /\ op_1 = 8 -> op_ld_st(x, pc1)
          [] op_4 = 15 /\ op_2 = 1 /\ op_1 = 14 ->
               IF i + v[x] > 65535
               THEN OverflowOr(Upd([pc |-> pc1, i |-> (i + v[x]) % 65536]))
               ELSE Upd([pc |-> pc1, i |-> i + v[x]])
          [] op_4 = 15 /\ op_2 = 2 /\ op_1 = 9 ->
               IF v[x] * 5 > 255
               THEN OverflowOr(Upd([pc |-> pc1, i |-> (v[x] * 5) % 256]))
               ELSE Upd([pc |-> pc1, i |-> v[x] * 5])
          [] op_4 = 15 /\ op_2 = 3 /\ op_1 = 3 -> op_ld_b(x, pc1)
          [] op_4 = 15 /\ op_2 = 5 /\ op_1 = 5 -> op_ld_i_vx(x, pc1)
          [] op_4 = 15 /\ op_2 = 6 /\ op_1 = 5 -> op_ld_vx_i(x, pc1)
          [] OTHER -> invalid_opcode(opcode, pc1)

\* exec_cycle with a fetch that wraps its addresses at the end of memory.
ExecCycle_wraps ==
    /\ status = "running"
    /\ process_opcode(memory[pc % MEM_SIZE] * 256 + memory[(pc + 1) % MEM_SIZE], pc + 2)

\* CPU::exec_cycle: fetch, advance pc by 2, execute.
ExecCycle ==
    /\ status = "running"
    /\ IF pc + 1 > MEM_SIZE - 1 THEN Panic("bounds")
       ELSE process_opcode(fetch_opcode, pc + 2)

\* update_timers with wrapping decrements and no test for zero.
UpdateTimers_wrap ==
    /\ status = "running"
    /\ dt' = (dt - 1) % 256
    /\ st' = (st - 1) % 256
    /\ output_beep' = (st > 0)
    /\ UNCHANGED <<pc, stack, sp, i, v, memory, keys, fb, need_redraw,
                   main_keys, contents, status, fault>>

\* CPU::update_timers; main keeps its return value in output_beep.
UpdateTimers ==
    /\ status = "running"
    /\ dt' = IF dt > 0 THEN dt - 1 ELSE dt
    /\ st' = IF st > 0 THEN st - 1 ELSE st
    /\ output_beep' = (st > 0)
    /\ UNCHANGED <<pc, stack, sp, i, v, memory, keys, fb, need_redraw,
                   main_keys, contents, status, fault>>

\* main's call of Keyboard::update_keys with the host keys that are down.
UpdateKeys ==
    /\ status = "running"
    /\ main_keys' \in SUBSET HostKeys
    /\ keys' = update_keys(main_keys')
    /\ UNCHANGED <<pc, stack, sp, i, dt, st, v, memory, fb, need_redraw,
                   output_beep, contents, status, fault>>

\* main's redraw: it presents the framebuffer and clears need_redraw.
Redraw ==
    /\ status = "running"
    /\ need_redraw
    /\ need_redraw' = FALSE
    /\ UNCHANGED <<pc, stack, sp, i, dt, st, v, memory, keys, fb,
                   main_keys, output_beep, contents, status, fault>>

Next == Reset \/ LoadRom \/ UpdateKeys \/ ExecCycle \/ UpdateTimers \/ Redraw

-----------------------------------------------------------------------------
(* Specifications *)

\* Programs that wait for a key (LD Vx, K at 0x200 or later), with timers
\* running or not.
RomsKey ==
    {Asm(<<OpXK(15, x, 10), OpA(1, 512)>>) : x \in {0, 3, 15}}
    \cup {Asm(<<OpXK(6, 0, 5), OpXK(15, 0, 21), OpXK(15, 0, 24),
               OpXK(15, 1, 10), Op(0, 0, 14, 0), Op(14, 1, 9, 14), OpA(1, 512)>>)}

\* Programs that store to memory: LD [I], Vx and LD B, Vx at addresses in and
\* around the font, and LD F, Vx / DRW reading it.
RomsStore ==
    {Asm(<<OpXK(6, 0, b), OpXK(6, 1, 7), OpA(10, a), OpXK(15, x, 85), OpXK(15, x, 101)>>) :
        b \in {0, 170, 240}, a \in {0, 79, 80, 768}, x \in {0, 1}}
    \cup {Asm(<<OpXK(6, 2, b), OpA(10, a), OpXK(15, 2, 51), OpXK(15, 2, 41)>>) :
        b \in {0, 9, 255}, a \in {77, 78, 80, 4093, 4094}}

\* ROM files of the lengths around the limit of load_rom.
RomsLen ==
    {RomOfLen(len, salt) : len \in {0, 2, 3582, 3583, 3584, 3585}, salt \in {0, 1}}

\* Programs that store V0..V1 at I, overwrite the two registers and load them
\* back with the same I.
RomsRoundTrip ==
    {Asm(<<OpXK(6, 0, b), OpXK(6, 1, 7), OpA(10, a), OpXK(15, 1, 85),
           OpXK(6, 0, 99), OpXK(6, 1, 99), OpXK(15, 1, 101)>>) :
        b \in {0, 170}, a \in {768, 4094}}

Roms == RomsKey \cup RomsStore \cup RomsRoundTrip \cup RomsLen

Init == Init0 /\ contents \in Roms

Spec == Init /\ [][Next]_vars

-----------------------------------------------------------------------------
(* Claims checked under Spec *)

\* The opcode at pc can be fetched.
CanFetch == pc + 1 <= MEM_SIZE - 1

IsLdK(opcode) == opcode \div 4096 = 15 /\ opcode % 256 = 10
IsLdIVx(opcode) == opcode \div 4096 = 15 /\ opcode % 256 = 85
IsLdB(opcode) == opcode \div 4096 = 15 /\ opcode % 256 = 51
OpX(opcode) == (opcode \div 256) % 16

\* C1: a step that executes LD Vx, K while no key is pressed leaves pc and all
\* other state as they were; a step that executes it while a key is pressed
\* moves pc just past the instruction and sets Vx to a key of the pressed set,
\* changing nothing else.
C1_KeyWait ==
    [][(status = "running" /\ CanFetch /\ IsLdK(fetch_opcode) /\ ExecCycle) =>
         IF keys = {}
         THEN UNCHANGED vars
         ELSE /\ pc' = pc + 2
              /\ v'[OpX(fetch_opcode)] \in keys
              /\ \A r \in Reg \ {OpX(fetch_opcode)} : v'[r] = v[r]
              /\ UNCHANGED <<stack, sp, i, dt, st, memory, keys, fb, need_redraw,
                             main_keys, output_beep, contents, status, fault>>]_vars

\* C1 witness: LD V3, K at 0x200 has completed with key 13 (host key X).
C1_Witness ==
    /\ status = "running"
    /\ pc = 514
    /\ IsLdK(memory[512] * 256 + memory[513])
    /\ OpX(memory[512] * 256 + memory[513]) = 3
    /\ v[3] = 13

\* C4 (as claimed): load_program accepts every ROM of at most 3583 bytes and
\* copies it to 0x200 on, touching no other byte; a longer ROM is a fatal load
\* error that leaves memory as it was.
C4_LoadAccepts ==
    [][(status = "reset" /\ status' # "reset") =>
         IF Len(contents) <= 3583
         THEN /\ status' = "running"
              /\ \A a \in 0..(MEM_SIZE - 1) :
                    memory'[a] = IF a >= 512 /\ a - 512 < Len(contents)
                                 THEN contents[a - 512 + 1] ELSE memory[a]
         ELSE /\ status' = "panicked"
              /\ fault' = "load"
              /\ memory' = memory]_vars

FontIntact(m) == \A a \in 0..79 : m[a] = font[a + 1]

\* C5 (as claimed): in every state reached from reset + load_program the bytes
\* [0x000, 0x050) equal the font table.
C5_FontImmutable == status = "running" => FontIntact(memory)

\* C5 (amended): reset + load_program leave the font table in [0x000, 0x050),
\* and the only operation that changes a byte there is a step executing
\* LD [I], Vx or LD B, Vx with I < 0x50.
C5_FontChangedOnlyByStores ==
    [][/\ (status = "reset" /\ status' = "running") => FontIntact(memory')
       /\ (status = "running" /\ \E a \in 0..79 : memory'[a] # memory[a]) =>
            /\ CanFetch
            /\ IsLdIVx(fetch_opcode) \/ IsLdB(fetch_opcode)
            /\ i < 80
            /\ ExecCycle]_vars

\* C5 witness: LD [I], V1 has stored V0 = 170 and V1 = 7 at I = 0x50, just above
\* the font, and the font is intact.
C5_Witness ==
    /\ status = "running"
    /\ i = 80
    /\ memory[80] = 170
    /\ memory[81] = 7
    /\ FontIntact(memory)

-----------------------------------------------------------------------------
(* Claims about the arithmetic and shift instructions *)

\* The register values the arithmetic programs load: MaxSample + 1 values from
\* each end of the byte range and the two around the sign bit.
MaxSample == 1
Samples == (0..MaxSample) \cup ((255 - MaxSample)..255) \cup {127, 128}

\* LD VF, f; LD Vx, a; LD Vy, b; then the 8xyN instruction.
AluRom(f, x, a, y, b, n) ==
    Asm(<<OpXK(6, 15, f), OpXK(6, x, a), OpXK(6, y, b), Op(8, x, y, n)>>)

\* The register pairs of the arithmetic programs: distinct registers, VF as
\* destination, VF as source, VF as both.
RegPairs == {<<0, 1>>, <<15, 1>>, <<1, 15>>, <<15, 15>>}

RomsShift ==
    {AluRom(f, x, a, 1, 0, n) : f \in {0, 1, 2}, x \in {0, 7, 15}, a \in Samples, n \in {6, 14}}
RomsAdd == {AluRom(2, p[1], a, p[2], b, 4) : p \in RegPairs, a \in Samples, b \in Samples}
RomsSub ==
    {AluRom(2, p[1], a, p[2], b, n) : p \in RegPairs, a \in Samples, b \in Samples, n \in {5, 7}}

InitShift == Init0 /\ contents \in RomsShift
SpecShift == InitShift /\ [][Next]_vars
InitAdd == Init0 /\ contents \in RomsAdd
SpecAdd == InitAdd /\ [][Next]_vars
InitSub == Init0 /\ contents \in RomsSub
SpecSub == InitSub /\ [][Next]_vars

\* The step taken executes the opcode at pc, an 8xyN instruction with low nibble n.
StepsAlu(n) ==
    /\ status = "running"
    /\ CanFetch
    /\ fetch_opcode \div 4096 = 8
    /\ fetch_opcode % 16 = n
    /\ pc' # pc
    /\ ExecCycle

OpY(opcode) == (opcode \div 16) % 16

\* C3 (as claimed): SHR and SHL leave in VF the bit shifted out of Vx (the low
\* bit for SHR, the high bit for SHL) for every x, 0xF included, and for
\* x # 0xF leave in Vx the value shifted by one bit, truncated to 8 bits.
C3_ShiftFlag ==
    [][/\ StepsAlu(6) =>
            LET x == OpX(fetch_opcode)
            IN  /\ v'[15] = v[x] % 2
                /\ x # 15 => v'[x] = v[x] \div 2
       /\ StepsAlu(14) =>
            LET x == OpX(fetch_opcode)
            IN  /\ v'[15] = v[x] \div 128
                /\ x # 15 => v'[x] = (2 * v[x]) % 256]_vars

\* C9: ADD Vx, Vy leaves VF = 1 iff Vx + Vy >= 256, else 0, for every x, and
\* for x # 0xF leaves Vx = (Vx + Vy) mod 256.
C9_AddCarry ==
    [][StepsAlu(4) =>
         LET x == OpX(fetch_opcode)
             y == OpY(fetch_opcode)
         IN  /\ v'[15] = IF v[x] + v[y] >= 256 THEN 1 ELSE 0
             /\ x # 15 =>
                  v'[x] = IF v[x] + v[y] >= 256 THEN v[x] + v[y] - 256 ELSE v[x] + v[y]]_vars

\* C9 witness: ADD V0, V1 has run on 255 + 1: V0 = 0 with VF = 1.
C9_Witness ==
    /\ status = "running"
    /\ pc = 520
    /\ memory[518] * 256 + memory[519] = Op(8, 0, 1, 4)
    /\ memory[515] = 255
    /\ v[1] = 1
    /\ v[0] = 0
    /\ v[15] = 1

\* C10: SUB Vx, Vy leaves VF = 0 iff Vx < Vy, else 1, and for x # 0xF leaves
\* Vx = (Vx - Vy) mod 256; SUBN Vx, Vy leaves VF = 0 iff Vy < Vx, else 1, and
\* for x # 0xF leaves Vx = (Vy - Vx) mod 256.
C10_SubBorrow ==
    [][/\ StepsAlu(5) =>
            LET x == OpX(fetch_opcode)
                y == OpY(fetch_opcode)
            IN  /\ v'[15] = IF v[x] < v[y] THEN 0 ELSE 1
                /\ x # 15 =>
                     v'[x] = IF v[x] < v[y] THEN v[x] - v[y] + 256 ELSE v[x] - v[y]
       /\ StepsAlu(7) =>
            LET x == OpX(fetch_opcode)
                y == OpY(fetch_opcode)
            IN  /\ v'[15] = IF v[y] < v[x] THEN 0 ELSE 1
                /\ x # 15 =>
                     v'[x] = IF v[y] < v[x] THEN v[y] - v[x] + 256 ELSE v[y] - v[x]]_vars

\* C10 witness: SUB V0, V1 has run on 0 - 1 (a borrow): V0 = 255 with VF = 0.
C10_Witness ==
    /\ status = "running"
    /\ pc = 520
    /\ memory[518] * 256 + memory[519] = Op(8, 0, 1, 5)
    /\ memory[515] = 0
    /\ v[1] = 1
    /\ v[0] = 255
    /\ v[15] = 0

-----------------------------------------------------------------------------
(* Claims about DRW and draw_sprite *)

\* Sprite data the drawing programs carry after their code: a full row and a
\* row with its two outer bits.
SpriteData == <<255, 129>>

\* A drawing program: CLS, or a first draw of font glyph 0 at (0, 0); then
\* LD Vx, kx; LD Vy, ky; LD I, addr; and DRW Vx, Vy, n twice; then SpriteData
\* (at code_len bytes past 0x200).
DrawRom(first, x, kx, y, ky, addr, n) ==
    Asm(<<IF first THEN Op(13, 2, 2, 5) ELSE Op(0, 0, 14, 0),
          OpXK(6, x, kx), OpXK(6, y, ky), OpA(10, addr),
          Op(13, x, y, n), Op(13, x, y, n)>>) \o SpriteData

\* Where SpriteData is in memory.
DataAddr == PROGRAM_START + 12

RomsDraw ==
    {DrawRom(first, p[1], kx, p[2], ky, addr, n) :
        first \in BOOLEAN, p \in {<<0, 1>>, <<15, 1>>, <<1, 15>>},
        kx \in {0, 60, 255}, ky \in {0, 255}, addr \in {0, DataAddr}, n \in {0, 5}}
    \cup {DrawRom(FALSE, 0, 60, 1, 31, addr, n) : addr \in {4090, 4095}, n \in {0, 1, 5}}

InitDraw == Init0 /\ contents \in RomsDraw
SpecDraw == InitDraw /\ [][Next]_vars

\* The step taken executes the opcode at pc, a DRW.
StepsDrw ==
    /\ status = "running"
    /\ CanFetch
    /\ fetch_opcode \div 4096 = 13
    /\ pc' # pc \/ status' # status
    /\ ExecCycle

\* The framebuffer indices that the 1 bits of the rows rows (a sequence of
\* bytes) fall on when drawn at (x, y), row j at (y + j) mod 32 and bit column
\* c (0 = leftmost) at (x + c) mod 64.
Targets(x, y, rows) ==
    {((x + q[2]) % 64) + 64 * ((y + q[1]) % 32) :
        q \in {r \in (0..(Len(rows) - 1)) \X (0..7) : Bit(rows[r[1] + 1], 7 - r[2]) = 1}}

\* The pixels on which f and g differ.
Changed(f, g) == (f \ g) \cup (g \ f)

\* The n sprite bytes memory[I], ..., memory[I + n - 1].
NBytes(n) == [k \in 1..n |-> memory[i + k - 1]]

\* The bitmap of font glyph 0 at (0, 0): rows F0 90 90 90 F0.
Glyph0 == {0, 1, 2, 3, 64, 67, 128, 131, 192, 195, 256, 257, 258, 259}

\* C2 (as claimed): DRW Vx, Vy, n composes exactly the n bytes memory[I] ..
\* memory[I + n - 1]: it completes whenever those bytes are in memory, it
\* changes exactly the pixels their 1 bits fall on (so none outside the n rows
\* from Vy), and glyph 0 drawn with n = 5 at (0, 0) on a cleared display
\* leaves the glyph's bitmap with VF = 0.
C2_DrawsNRows ==
    [][StepsDrw =>
         LET x == OpX(fetch_opcode)
             y == OpY(fetch_opcode)
             n == fetch_opcode % 16
         IN  (i + n - 1 <= MEM_SIZE - 1) =>
                /\ status' = "running"
                /\ Changed(fb, fb') = Targets(v[x], v[y], NBytes(n))
                /\ \A p \in Changed(fb, fb') :
                      p \div 64 \in {(v[y] + j) % 32 : j \in 0..(n - 1)}
                /\ (fb = {} /\ i = 0 /\ v[x] = 0 /\ v[y] = 0 /\ n = 5) =>
                      (fb' = Glyph0 /\ v'[15] = 0)]_vars

\* C6: a DRW step that completes is undone by draw_sprite with the same
\* position and sprite: the framebuffer is again the one before the step, and
\* that second draw returns collision iff the step turned a pixel from off to on.
C6_DoubleDraw ==
    [][(StepsDrw /\ status' = "running") =>
         LET x == OpX(fetch_opcode)
             y == OpY(fetch_opcode)
             n == fetch_opcode % 16
             r2 == draw_sprite(fb', v[x], v[y], drw_sprite(n))
         IN  /\ r2.ok
             /\ r2.fb = fb
             /\ r2.collision = (fb' \ fb # {})]_vars

\* C6 witness: after CLS, glyph 0 has been drawn twice at (0, 0) by two DRW
\* steps in succession: the display is clear again and the second draw collided.
C6_Witness ==
    /\ status = "running"
    /\ pc = 524
    /\ memory[512] * 256 + memory[513] = Op(0, 0, 14, 0)
    /\ memory[520] * 256 + memory[521] = Op(13, 0, 1, 5)
    /\ memory[522] * 256 + memory[523] = Op(13, 0, 1, 5)
    /\ i = 0 /\ v[0] = 0 /\ v[1] = 0
    /\ fb = {}
    /\ v[15] = 1

\* C7: draw_sprite returns true iff a 1 bit of the sprite falls on a pixel that
\* is on, and a DRW step that completes leaves VF = 1 if it does and VF = 0 if
\* not, whatever VF was and also when x or y is 0xF.
C7_Collision ==
    [][(StepsDrw /\ status' = "running") =>
         LET x == OpX(fetch_opcode)
             y == OpY(fetch_opcode)
             n == fetch_opcode % 16
             hit == Targets(v[x], v[y], drw_sprite(n)) \cap fb # {}
         IN  /\ draw_sprite(fb, v[x], v[y], drw_sprite(n)).collision = hit
             /\ v'[15] = IF hit THEN 1 ELSE 0]_vars

\* C7 witness: with glyph 0 at (0, 0), DRW VF, V1, n with VF = 60 and V1 = 0
\* has drawn a row of eight 1 bits at (60, 0), whose last four columns wrap
\* onto the glyph: VF = 1.
C7_Witness ==
    /\ status = "running"
    /\ pc = 522
    /\ memory[512] * 256 + memory[513] = Op(13, 2, 2, 5)
    /\ memory[520] = 13 * 16 + 15
    /\ memory[515] = 60
    /\ i = DataAddr
    /\ v[1] = 0
    /\ v[15] = 1

\* C8: a DRW step whose sprite slice is in memory never faults in the display
\* and changes exactly the pixels at ((x + c) mod 64, (y + j) mod 32) of the
\* sprite's 1 bits, all of index 0..2047; a row of eight 1 bits at x = 60
\* changes exactly columns 60, 61, 62, 63, 0, 1, 2, 3 of its row.
C8_Wraparound ==
    [][(StepsDrw /\ i + (fetch_opcode % 16) <= MEM_SIZE - 1) =>
         LET x == OpX(fetch_opcode)
             y == OpY(fetch_opcode)
             n == fetch_opcode % 16
             row0 == (v[y] % 32) * 64
         IN  /\ status' = "running"
             /\ fb' \subseteq 0..2047
             /\ Changed(fb, fb') = Targets(v[x], v[y], drw_sprite(n))
             /\ (v[x] = 60 /\ memory[i] = 255) =>
                  {p - row0 : p \in {q \in Changed(fb, fb') : q \div 64 = v[y] % 32}}
                     = {60, 61, 62, 63, 0, 1, 2, 3}]_vars

\* C8 witness: on a cleared display a row of eight 1 bits has been drawn at
\* x = 60, y = 255 (row 31): columns 60..63 and 0..3 of row 31 are on.
C8_Witness ==
    /\ status = "running"
    /\ v[0] = 60 /\ v[1] = 255
    /\ i = DataAddr
    /\ pc = 522
    /\ fb = {31 * 64 + c : c \in {60, 61, 62, 63, 0, 1, 2, 3}}

-----------------------------------------------------------------------------
(* Timers: programs that set DT and ST and then run while the timers tick *)

\* The largest value the programs load into a timer.
MaxTimer == 2

\* LD V0, a; LD V1, b; LD DT, V0; LD ST, V1; then for ever LD V2, DT.
TimerRom(a, b) ==
    Asm(<<OpXK(6, 0, a), OpXK(6, 1, b), OpXK(15, 0, 21), OpXK(15, 1, 24),
          OpXK(15, 2, 7), OpA(1, PROGRAM_START + 8)>>)

\* A program that uses every part of the state: LD V0, 2; LD DT, V0;
\* LD ST, V0; LD I, 5; DRW V0, V0, 5; CALL 0x210; JP self; and at 0x210
\* LD V1, K; LD I, 0x300; LD [I], V1; RET.
RomsBusy ==
    {Asm(<<OpXK(6, 0, 2), OpXK(15, 0, 21), OpXK(15, 0, 24), OpA(10, 5),
           Op(13, 0, 0, 5), OpA(2, PROGRAM_START + 16), OpA(1, PROGRAM_START + 12),
           0, OpXK(15, 1, 10), OpA(10, 768), OpXK(15, 1, 85), Op(0, 0, 14, 14)>>)}

\* The timer programs, and the busy program for the instructions they lack.
RomsTimer == {TimerRom(a, b) : a \in 0..MaxTimer, b \in 0..MaxTimer} \cup RomsBusy

InitTimer == Init0 /\ contents \in RomsTimer

SpecTimer == InitTimer /\ [][Next]_vars

\* C11: every call of update_timers returns true exactly when ST was non-zero
\* before it, takes 1 from ST when ST was non-zero and 1 from DT when DT was
\* non-zero, and leaves a timer that was 0 at 0. (So from ST = 2 three calls
\* return true, true, false and leave ST = 0.)
C11_TickTimers ==
    [][(status = "running" /\ pc' = pc /\ UpdateTimers) =>
         /\ output_beep' = (st # 0)
         /\ st' = IF st # 0 THEN st - 1 ELSE 0
         /\ dt' = IF dt # 0 THEN dt - 1 ELSE 0
         /\ st' \in Byte /\ dt' \in Byte]_vars

\* The program loaded 2 into ST (V1 = 2, pc past LD ST, V1) and the timer has
\* since run out: two calls returned true and took it to 0, and a later call
\* returned false.
C11_Witness ==
    /\ status = "running"
    /\ v[1] = 2
    /\ pc >= PROGRAM_START + 8
    /\ st = 0
    /\ output_beep = FALSE

-----------------------------------------------------------------------------
(* Stack: programs of nested subroutines *)

\* The nesting depths of the programs: shallow, the 16 slots in full, and one
\* call more than the stack holds.
Depths == {1, 2, 16, 17}

\* CALL r1; JP self; then routines r1..rd, every one a CALL of the next
\* followed by RET, the last one only RET.
NestRom(d) ==
    Asm([n \in 1..(2 * d + 2) |->
           IF n = 1 THEN OpA(2, PROGRAM_START + 4)
           ELSE IF n = 2 THEN OpA(1, PROGRAM_START + 2)
           ELSE IF n % 2 = 1 /\ (n - 1) \div 2 < d
                THEN OpA(2, PROGRAM_START + 4 + 2 * (n - 1))
                ELSE Op(0, 0, 14, 14)])

\* RET as the first instruction; a CALL whose routine returns to a RET; a
\* routine that calls itself.
RomsFault ==
    {Asm(<<Op(0, 0, 14, 14)>>),
     Asm(<<OpA(2, PROGRAM_START + 4), Op(0, 0, 14, 14), Op(0, 0, 14, 14)>>),
     Asm(<<OpA(2, PROGRAM_START)>>)}

RomsStack == {NestRom(d) : d \in Depths} \cup RomsFault

InitStack == Init0 /\ contents \in RomsStack

SpecStack == InitStack /\ [][Next]_vars

IsRet(opcode) == opcode = 238
IsCall(opcode) == opcode \div 4096 = 2

\* C12: a step that executes RET with sp = 0 or CALL with sp = 16 ends the
\* process with a panic and changes nothing else; after a panic no step
\* follows; and sp is between 0 and 16 in every state that has not panicked.
C12_StackFault ==
    [][/\ (status = "panicked" => UNCHANGED vars)
       /\ (status' # "panicked" => sp' \in 0..16)
       /\ (/\ status = "running" /\ CanFetch
           /\ \/ IsRet(fetch_opcode) /\ sp = 0
              \/ IsCall(fetch_opcode) /\ sp = 16
           /\ ExecCycle)
          => /\ status' = "panicked"
             /\ fault' \in {"overflow", "bounds"}
             /\ UNCHANGED machine]_vars

\* The seventeenth nested CALL found the stack full and ended the process.
C12_Witness ==
    /\ status = "panicked"
    /\ fault = "bounds"
    /\ sp = 16
    /\ IsCall(fetch_opcode)

\* C18: a step that executes CALL addr at a with sp < 16 writes a + 2 to slot
\* sp and nothing else of the stack, adds 1 to sp and sets pc to addr; a step
\* that executes RET with sp > 0 sets pc to slot sp - 1, takes 1 from sp and
\* leaves the slots as they are; no other instruction touches stack or sp. (So
\* calls and returns pair last-in first-out, up to 16 deep.)
C18_CallRet ==
    [][(/\ status = "running" /\ CanFetch
        /\ (pc' # pc \/ sp' # sp \/ stack' # stack)
        /\ ExecCycle) =>
         /\ (IsCall(fetch_opcode) /\ sp < 16) =>
               /\ stack' = [stack EXCEPT ![sp] = pc + 2]
               /\ sp' = sp + 1
               /\ pc' = fetch_opcode % 4096
         /\ (IsRet(fetch_opcode) /\ sp > 0) =>
               /\ pc' = stack[sp - 1]
               /\ sp' = sp - 1
               /\ stack' = stack
         /\ (~IsCall(fetch_opcode) /\ ~IsRet(fetch_opcode)) =>
               /\ stack' = stack
               /\ sp' = sp]_vars

\* Sixteen nested calls have all returned: the program is back at the
\* instruction after its first CALL with an empty stack, and slot 15 still
\* holds the return address of the innermost call.
C18_Witness ==
    /\ status = "running"
    /\ pc = PROGRAM_START + 2
    /\ sp = 0
    /\ stack[0] = PROGRAM_START + 2
    /\ stack[15] = PROGRAM_START + 4 + 4 * 15 - 2

-----------------------------------------------------------------------------
(* Decoding and fetching *)

\* The patterns of the arms of process_opcode in the order of the match; a
\* nibble a pattern leaves open (_) has no field.
Patterns ==
    <<[op_4 |-> 0, op_3 |-> 0, op_2 |-> 14, op_1 |-> 0],
      [op_4 |-> 0, op_3 |-> 0, op_2 |-> 14, op_1 |-> 14],
      [op_4 |-> 1], [op_4 |-> 2], [op_4 |-> 3], [op_4 |-> 4], [op_4 |-> 5],
      [op_4 |-> 6], [op_4 |-> 7],
      [op_4 |-> 8, op_1 |-> 0], [op_4 |-> 8, op_1 |-> 1], [op_4 |-> 8, op_1 |-> 2],
      [op_4 |-> 8, op_1 |-> 3], [op_4 |-> 8, op_1 |-> 4], [op_4 |-> 8, op_1 |-> 5],
      [op_4 |-> 8, op_1 |-> 6], [op_4 |-> 8, op_1 |-> 7], [op_4 |-> 8, op_1 |-> 14],
      [op_4 |-> 9, op_1 |-> 0],
      [op_4 |-> 10], [op_4 |-> 11], [op_4 |-> 12], [op_4 |-> 13],
      [op_4 |-> 14, op_2 |-> 9, op_1 |-> 14], [op_4 |-> 14, op_2 |-> 10, op_1 |-> 1],
      [op_4 |-> 15, op_2 |-> 0, op_1 |-> 7], [op_4 |-> 15, op_2 |-> 0, op_1 |-> 10],
      [op_4 |-> 15, op_2 |-> 1, op_1 |-> 5], [op_4 |-> 15, op_2 |-> 1, op_1 |-> 8],
      [op_4 |-> 15, op_2 |-> 1, op_1 |-> 14], [op_4 |-> 15, op_2 |-> 2, op_1 |-> 9],
      [op_4 |-> 15, op_2 |-> 3, op_1 |-> 3], [op_4 |-> 15, op_2 |-> 5, op_1 |-> 5],
      [op_4 |-> 15, op_2 |-> 6, op_1 |-> 5]>>

\* The nibbles process_opcode breaks an opcode into.
Nibbles(opcode) ==
    [op_4 |-> opcode \div 4096, op_3 |-> (opcode \div 256) % 16,
     op_2 |-> (opcode \div 16) % 16, op_1 |-> opcode % 16]

\* The arms whose pattern an opcode matches.
Arms(opcode) ==
    {k \in DOMAIN Patterns :
        \A f \in DOMAIN Patterns[k] : Patterns[k][f] = Nibbles(opcode)[f]}

\* The second bytes the arms of the first nibbles 0, E and F name, and 0x0F.
LowBytes == {7, 10, 15, 21, 24, 30, 41, 51, 85, 101, 158, 161, 224, 238}

\* Programs of one instruction: every first nibble with every low byte, the
\* arms of the first nibble 8 the low bytes leave out, and three opcodes that
\* differ from CLS and RET in the second nibble only. (The zero bytes after
\* the program are the opcode 0000.)
RomsOpcode ==
    {Asm(<<OpXK(a, 0, kk)>>) : a \in 0..15, kk \in LowBytes}
    \cup {Asm(<<OpXK(8, 0, kk)>>) : kk \in {0, 2, 4, 6}}
    \cup {Asm(<<OpXK(0, 1, 224)>>), Asm(<<OpXK(0, 1, 238)>>), Asm(<<OpXK(0, 15, 255)>>)}

\* Programs whose pc leaves memory: a jump to 0xFFF; JP V0, addr with
\* addr + V0 at and beyond 0xFFF; an instruction stored at 0xFFE and run, so
\* that pc runs off the end; a CALL stored at 0xFFD, whose routine returns to
\* 0xFFF. The last of JP V0 stays inside memory.
RomsFetch ==
    {Asm(<<OpA(1, 4095)>>)}
    \cup {Asm(<<OpXK(6, 0, k), OpA(11, a)>>) :
            k \in {0, 1, 255}, a \in {4094, 4095, 3840}}
    \cup {Asm(<<OpXK(6, 0, 96), OpXK(6, 1, 0), OpA(10, 4094), OpXK(15, 1, 85),
               OpA(1, 4094)>>)}
    \cup {Asm(<<OpXK(6, 0, 34), OpA(1, PROGRAM_START + 6), Op(0, 0, 14, 14),
               OpXK(6, 1, 4), OpA(10, 4093), OpXK(15, 1, 85), OpA(1, 4093)>>)}

RomsDecode == RomsOpcode \cup RomsFetch

InitDecode == Init0 /\ contents \in RomsDecode

SpecDecode == InitDecode /\ [][Next]_vars

\* C13: a step whose opcode matches the pattern of no arm ends the process
\* with the invalid-opcode panic and changes nothing else, and no step follows
\* a panic; every other opcode matches the pattern of exactly one arm and its
\* step does not end in the invalid-opcode panic.
C13_InvalidOpcode ==
    [][/\ (status = "panicked" => UNCHANGED vars)
       /\ (/\ status = "running" /\ CanFetch
           /\ (pc' # pc \/ status' # status)
           /\ ExecCycle)
          => /\ Cardinality(Arms(fetch_opcode)) <= 1
             /\ (Arms(fetch_opcode) = {}) <=> (status' = "panicked" /\ fault' = "opcode")
             /\ (Arms(fetch_opcode) = {}) => UNCHANGED machine]_vars

\* The program 8018 (first nibble 8, low nibble 8: no arm) has ended in the
\* invalid-opcode panic at its first instruction.
C13_Witness ==
    /\ status = "panicked"
    /\ fault = "opcode"
    /\ pc = PROGRAM_START
    /\ fetch_opcode = OpXK(8, 0, 24)
    /\ Arms(fetch_opcode) = {}

\* C14: a step with pc + 1 beyond 0xFFF ends the process with the
\* out-of-bounds panic and changes nothing else; a step with pc + 1 within
\* memory decodes memory[pc] * 256 + memory[pc + 1] (for LD Vx, kk: the high
\* byte names the instruction and x, the low byte is kk).
C14_Fetch ==
    [][(/\ status = "running"
        /\ (~CanFetch \/ memory[pc] \div 16 = 6)
        /\ ExecCycle)
       => IF ~CanFetch
          THEN /\ status' = "panicked"
               /\ fault' = "bounds"
               /\ UNCHANGED machine
          ELSE /\ fetch_opcode = memory[pc] * 256 + memory[pc + 1]
               /\ v' = [v EXCEPT ![memory[pc] % 16] = memory[pc + 1]]
               /\ pc' = pc + 2
               /\ status' = "running"]_vars

\* The instruction stored at 0xFFE has run, pc has left memory and the next
\* fetch has ended the process.
C14_Witness ==
    /\ status = "panicked"
    /\ fault = "bounds"
    /\ pc = MEM_SIZE
    /\ memory[MEM_SIZE - 2] = 96

-----------------------------------------------------------------------------
(* Keyboard: claims checked under Spec *)

\* The logical keys that some host key of the set P is mapped to.
MappedKeys(P) == {k \in 0..15 : \E h \in P : h \in DOMAIN keymap /\ keymap[h] = k}

\* C15: whatever updates came before, the held set is exactly the set of the
\* logical keys the host keys of the last update are mapped to (keys held
\* before and unmapped host keys contribute nothing), and is_pressed(k) holds
\* exactly for the keys of that set.
C15_HeldKeys ==
    /\ keys = MappedKeys(main_keys)
    /\ \A k \in 0..15 : is_pressed(k) <=> k \in MappedKeys(main_keys)

\* The last update reported no host key but the unmapped one, in a program
\* that has read a key before (V3 = 0xD from LD V3, K): the held set is empty.
C15_Witness ==
    /\ status = "running"
    /\ v[3] = 13
    /\ main_keys = {"Space"}
    /\ keys = {}
    /\ ~is_pressed(13)

-----------------------------------------------------------------------------
(* Block store and load: claims checked under Spec *)

IsLdVxI(opcode) == opcode \div 4096 = 15 /\ opcode % 256 = 101

\* C16: a step that executes LD [I], Vx with the block inside memory writes
\* V0..Vx to memory[I..I+x] and changes no other byte and no register; a step
\* that executes LD Vx, [I] reads V0..Vx from memory[I..I+x] and changes no
\* other register and no byte; both leave I as it was. A program that stores
\* V0..V1, overwrites them and loads them with the same I has its old V0..V1.
C16_BlockStoreLoad ==
    [][/\ (/\ status = "running" /\ CanFetch
           /\ IsLdIVx(fetch_opcode) \/ IsLdVxI(fetch_opcode)
           /\ i + OpX(fetch_opcode) <= MEM_SIZE - 1
           /\ pc' # pc
           /\ ExecCycle)
          => LET x == OpX(fetch_opcode)
             IN  /\ i' = i
                 /\ pc' = pc + 2
                 /\ IsLdIVx(fetch_opcode) =>
                      /\ \A k \in 0..x : memory'[i + k] = v[k]
                      /\ \A a \in 0..(MEM_SIZE - 1) :
                            (a < i \/ a > i + x) => memory'[a] = memory[a]
                      /\ v' = v
                 /\ IsLdVxI(fetch_opcode) =>
                      /\ \A k \in 0..x : v'[k] = memory[i + k]
                      /\ \A k \in (x + 1)..15 : v'[k] = v[k]
                      /\ memory' = memory
       /\ (/\ status' = "running"
           /\ pc' = PROGRAM_START + 14 /\ pc' # pc
           /\ contents \in RomsRoundTrip)
          => (v'[0] = contents[2] /\ v'[1] = contents[4])]_vars

\* The program stored V0 = 0xAA and V1 = 7 at 0xFFE, set both registers to 99
\* and loaded them back.
C16_Witness ==
    /\ status = "running"
    /\ pc = PROGRAM_START + 14
    /\ i = 4094
    /\ memory[4094] = 170 /\ memory[4095] = 7
    /\ v[0] = 170 /\ v[1] = 7
    /\ memory[PROGRAM_START + 9] = 99

-----------------------------------------------------------------------------
(* Reset: a driver that may reset the CPU at any time *)

InitReset == Init0 /\ contents \in RomsBusy

NextReset == Next \/ ResetAgain

SpecReset == InitReset /\ [][NextReset]_vars

\* C17: every step that is a reset, from the state after construction or from
\* any state of a running program or of a CPU just reset, ends in the same
\* state: pc = 0x200, sp = 0, I = 0, V, the timers and the stack all 0, memory
\* 0 except the font in its first 80 bytes, the display off and no key held.
\* (A reset of that state therefore changes nothing.)
C17_Reset ==
    [][status' = "reset" =>
         /\ pc' = 512 /\ sp' = 0 /\ i' = 0
         /\ dt' = 0 /\ st' = 0
         /\ \A k \in 0..15 : v'[k] = 0 /\ stack'[k] = 0
         /\ \A a \in 0..(MEM_SIZE - 1) :
               memory'[a] = IF a < 80 THEN font[a + 1] ELSE 0
         /\ fb' = {}
         /\ keys' = {}]_vars

\* The CPU has been reset while the program was running: main has seen a key
\* pressed and the sound timer has made the driver beep, and the state is the
\* reset state.
C17_Witness ==
    /\ status = "reset"
    /\ main_keys = {"X"}
    /\ output_beep
    /\ pc = 512 /\ sp = 0 /\ fb = {} /\ keys = {}
    /\ memory[PROGRAM_START] = 0

-----------------------------------------------------------------------------
(* The redraw flag: checked under SpecDraw *)

IsCls(opcode) == opcode = 224
IsDrw(opcode) == opcode \div 4096 = 13

\* C19: a DRW step that completes leaves need_redraw set, whatever the sprite
\* (all-zero sprites included), and leaves every pixel that is not the wrapped
\* target of a 1 bit as it was; draw_sprite of an empty sprite changes no
\* pixel. need_redraw goes from set to clear only in a step that changes
\* nothing of the CPU (the driver's redraw), and from clear to set only in
\* reset's clear, CLS or DRW.
C19_RedrawFlag ==
    [][/\ (StepsDrw /\ status' = "running") =>
            LET x == OpX(fetch_opcode)
                y == OpY(fetch_opcode)
                n == fetch_opcode % 16
            IN  /\ need_redraw'
                /\ \A p \in (0..(WIDTH * HEIGHT - 1)) \ Targets(v[x], v[y], drw_sprite(n)) :
                      (p \in fb') <=> (p \in fb)
                /\ draw_sprite(fb, v[x], v[y], <<>>).fb = fb
       /\ (need_redraw /\ ~need_redraw') =>
            /\ UNCHANGED <<pc, stack, sp, i, dt, st, v, memory, keys, fb>>
            /\ status' = status
       /\ (~need_redraw /\ need_redraw') =>
            \/ status = "new"
            \/ /\ status = "running" /\ CanFetch
               /\ IsCls(fetch_opcode) \/ IsDrw(fetch_opcode)]_vars

\* After CLS a sprite of six zero bytes (memory[4090..4095]) has been drawn:
\* the display is still empty and need_redraw is set.
C19_Witness ==
    /\ status = "running"
    /\ i = 4090
    /\ pc = PROGRAM_START + 10
    /\ memory[PROGRAM_START + 8] * 256 + memory[PROGRAM_START + 9] = Op(13, 0, 1, 5)
    /\ fb = {}
    /\ need_redraw

-----------------------------------------------------------------------------
(* Who changes the timers: checked under SpecTimer *)

IsLdDt(opcode) == opcode \div 4096 = 15 /\ opcode % 256 = 21
IsLdSt(opcode) == opcode \div 4096 = 15 /\ opcode % 256 = 24

\* The step changes nothing of the CPU but the timers.
OnlyTimers == UNCHANGED <<pc, stack, sp, i, v, memory, keys, fb, need_redraw, status>>

\* C20: a step that changes DT is either a tick, which takes 1 from a non-zero
\* DT and changes nothing of the CPU but the timers, or the execution of
\* LD DT, Vx, which sets DT to Vx and leaves ST; the same for ST and LD ST, Vx;
\* and a call of update_timers that changes what it returns changes nothing
\* but the timers. (So without LD DT, Vx, DT after k ticks is max(0, DT0 - k)
\* however the steps are interleaved.)
C20_TimerFrame ==
    [][/\ dt' # dt =>
            \/ dt > 0 /\ dt' = dt - 1 /\ OnlyTimers
            \/ /\ status = "running" /\ CanFetch /\ IsLdDt(fetch_opcode)
               /\ dt' = v[OpX(fetch_opcode)]
               /\ st' = st
               /\ pc' = pc + 2
       /\ st' # st =>
            \/ st > 0 /\ st' = st - 1 /\ OnlyTimers
            \/ /\ status = "running" /\ CanFetch /\ IsLdSt(fetch_opcode)
               /\ st' = v[OpX(fetch_opcode)]
               /\ dt' = dt
               /\ pc' = pc + 2
       /\ output_beep' # output_beep => OnlyTimers]_vars

\* DT was loaded with 2, the program read it as 1 after one tick while it ran
\* its loop, and two ticks or more have taken it to 0.
C20_Witness ==
    /\ status = "running"
    /\ v[0] = 2
    /\ v[2] = 1
    /\ pc = PROGRAM_START + 10
    /\ dt = 0

====
